---- MODULE Spec2Model ----
(***************************************************************************)
(* Model of the script-to-video generator: the /generate handler of       *)
(* app.py, build_video_from_script and _make_srt of utils/video_builder.py *)
(* and TTSAdapter.synth of utils/tts_adapter.py.                           *)
(*                                                                         *)
(* Times are whole milliseconds.  The durations the speech provider        *)
(* returns are drawn from multiples of 250 ms: these are exactly           *)
(* representable binary fractions of a second, so the float additions and  *)
(* comparisons of the code coincide with integer arithmetic on them.  The  *)
(* float arithmetic of fmt is modelled bit-exactly (see Fmt).              *)
(***************************************************************************)
EXTENDS Integers, Sequences, FiniteSets, TLC

\* ---------------------------------------------------------------- bounds
MaxLines == 3        \* raw lines in a submitted script
MaxTarget == 3       \* largest integer target_seconds submitted
Jitter == 10         \* ms by which a fallback wav file's measured length may
                     \* differ from the estimate synth returned
MaxFmtMs == 2500     \* fmt is applied to every whole millisecond up to here
MaxFmtHours == 1     \* and to selected times with hours up to here

\* ------------------------------------------------------ program constants
MsPerSec == 1000
MinRemaining == 300        \* max(0.3, ...): floor of a truncated scene
DefaultTarget == 60        \* int(request.form.get("target_seconds") or 60)
MinEstimate == 800         \* max(0.8, words / wps)
Marker == " ..."           \* the truncation marker " …" (U+2026), written in ASCII

Durations == {250, 1000, 2000}

\* A raw script line: its text after strip() and whether it carries
\* surrounding whitespace.  body = "" is a blank (whitespace-only) line.
RawLines == {[body |-> "", pad |-> TRUE],
             [body |-> "Hello", pad |-> FALSE],
             [body |-> "World", pad |-> TRUE]}

SeqsUpTo(S, n) == UNION {[1..k -> S] : k \in 0..n}

Scripts == SeqsUpTo(RawLines, MaxLines)

\* The target_seconds form field: absent or empty, not an integer literal,
\* or an integer literal.
FormTargets == {[kind |-> "absent", val |-> 0], [kind |-> "malformed", val |-> 0]}
               \cup {[kind |-> "int", val |-> n] : n \in (-1)..MaxTarget}

VARIABLES
    pc,           \* position of the request in generate / build_video_from_script
    script,       \* request.form["script"] as raw lines
    targetForm,   \* request.form["target_seconds"]
    engine,       \* TTSAdapter.engine is not None
    target_seconds,
    jobDir,       \* os.makedirs(job_dir) has run
    lines, audio_files, durations,   \* the three parallel lists of the build
    segments,     \* [(line, dur)] as appended by the synthesis loop
    wavDur,       \* measured length of scene_XX.wav, by index
    synthLog,     \* every tts.synth call: [line, trimmed] (trimmed: after the trimming pass)
    trimmed,      \* the trimming pass has been passed
    clips,        \* rendered scenes: [text, audio, duration]
    video,        \* written video file: <<>> or <<[duration, scenes]>>
    srt,          \* written subtitle file: <<>> or <<entries>>
    audioMix,     \* extracted audio track written
    response,     \* the HTTP response of /generate
    fmtIn, fmtOut \* argument and result of a call of fmt

vars == <<pc, script, targetForm, engine, target_seconds, jobDir, lines,
          audio_files, durations, segments, wavDur, synthLog, trimmed, clips,
          video, srt, audioMix, response, fmtIn, fmtOut>>

buildVars == <<lines, audio_files, durations, segments, wavDur, synthLog,
               trimmed, clips, video, srt, audioMix>>

fmtVars == <<fmtIn, fmtOut>>

\* --------------------------------------------------------------- helpers
Max(a, b) == IF a >= b THEN a ELSE b

RECURSIVE SumSeq(_)
SumSeq(s) == IF s = <<>> THEN 0 ELSE Head(s) + SumSeq(Tail(s))

Prefix(s, n) == SubSeq(s, 1, n)

NoResponse == [status |-> 0, ok |-> FALSE, error |-> "none"]

\* ------------------------------------------------- app.py: form parsing
\* script.strip() == "": the whole script is whitespace.
ScriptBlank(sc) == \A i \in 1..Len(sc) : sc[i].body = ""

\* int(request.form.get("target_seconds") or 60); malformed raises ValueError.
TargetParses(f) == f.kind # "malformed"
ParseTarget(f) == IF f.kind = "int" THEN f.val ELSE DefaultTarget

\* [ln.strip() for ln in script.splitlines() if ln.strip()]
NonEmpty(r) == r.body # ""
RECURSIVE SplitLines(_)
SplitLines(sc) ==
    IF sc = <<>> THEN <<>>
    ELSE IF NonEmpty(Head(sc)) THEN <<Head(sc).body>> \o SplitLines(Tail(sc))
         ELSE SplitLines(Tail(sc))

\* ------------------------------------------- video_builder.py: trimming
\* running + d <= target_seconds
Fits(running, d, target) == running + d <= target * MsPerSec

\* The remaining budget with the running total not subtracted (faulty variant of Remaining).
RemainingNoSubtract(target, running) == Max(MinRemaining, target * MsPerSec)

\* remaining = max(0.3, target_seconds - running)
Remaining(target, running) == Max(MinRemaining, target * MsPerSec - running)

\* The truncated line left without its marker (faulty variant of Truncated).
TruncatedNoMarker(ln) == ln

\* ln + " …"
Truncated(ln) == ln \o Marker

\* total > target_seconds
OverBudget(durs, target) == SumSeq(durs) > target * MsPerSec

\* The for loop of the trimming pass from position i on, with the running
\* total and the three new lists accumulated so far.
RECURSIVE TrimLoop(_, _, _, _, _, _)
TrimLoop(ls, afs, ds, target, running, acc) ==
    IF ls = <<>> THEN acc
    ELSE IF Fits(running, Head(ds), target)
         THEN TrimLoop(Tail(ls), Tail(afs), Tail(ds), target, running + Head(ds),
                       [lines |-> Append(acc.lines, Head(ls)),
                        audio |-> Append(acc.audio, Head(afs)),
                        durs  |-> Append(acc.durs, Head(ds))])
         ELSE [lines |-> Append(acc.lines, Truncated(Head(ls))),
               audio |-> Append(acc.audio, Head(afs)),
               durs  |-> Append(acc.durs, Remaining(target, running))]

EmptyPlan == [lines |-> <<>>, audio |-> <<>>, durs |-> <<>>]

\* The same loop with the budget treated as exclusive (faulty variant of Schedule).
RECURSIVE TrimLoopExclusive(_, _, _, _, _, _)
TrimLoopExclusive(ls, afs, ds, target, running, acc) ==
    IF ls = <<>> THEN acc
    ELSE IF running + Head(ds) < target * MsPerSec
         THEN TrimLoopExclusive(Tail(ls), Tail(afs), Tail(ds), target, running + Head(ds),
                       [lines |-> Append(acc.lines, Head(ls)),
                        audio |-> Append(acc.audio, Head(afs)),
                        durs  |-> Append(acc.durs, Head(ds))])
         ELSE [lines |-> Append(acc.lines, Truncated(Head(ls))),
               audio |-> Append(acc.audio, Head(afs)),
               durs  |-> Append(acc.durs, Remaining(target, running))]

ScheduleExclusive(ls, afs, ds, target) ==
    IF SumSeq(ds) >= target * MsPerSec
    THEN TrimLoopExclusive(ls, afs, ds, target, 0, EmptyPlan)
    ELSE [lines |-> ls, audio |-> afs, durs |-> ds]

\* total = sum(durations); if total > target_seconds: <trimming pass>
Schedule(ls, afs, ds, target) ==
    IF OverBudget(ds, target)
    THEN TrimLoop(ls, afs, ds, target, 0, EmptyPlan)
    ELSE [lines |-> ls, audio |-> afs, durs |-> ds]

\* ------------------------------------------------ video_builder.py: fmt
\* fmt(ts) for the double ts nearest to n/1000 seconds.  The code computes
\*   ms = int((ts - int(ts)) * 1000)
\* in IEEE-754 binary64.  With ts = M / 2^p (M the 53-bit significand) the
\* subtraction is exact and the product is k + delta / 2^p before rounding,
\* where k = n mod 1000 and delta / 1000 is the representation error of ts
\* scaled by 2^p; int() then yields k - 1 exactly when the rounded product
\* lies below k.
RECURSIVE FloorLog2(_)
FloorLog2(n) == IF n < 2 THEN 0 ELSE 1 + FloorLog2(n \div 2)

RECURSIVE Pow2(_)
Pow2(e) == IF e = 0 THEN 1 ELSE 2 * Pow2(e - 1)

RECURSIVE Pow2Mod(_, _)
Pow2Mod(e, m) == IF e = 0 THEN 1 % m ELSE (2 * Pow2Mod(e - 1, m)) % m

\* Binary exponent of n/1000 seconds: floor(log2(n / 1000)), n > 0.
RECURSIVE NegExp(_, _)
NegExp(n, j) == IF n * Pow2(j) >= MsPerSec THEN j ELSE NegExp(n, j + 1)
BinExp(n) == IF n >= MsPerSec THEN FloorLog2(n \div MsPerSec) ELSE 0 - NegExp(n, 1)

\* The representation error of the double nearest n/1000, as delta with
\* ts = n/1000 + delta / (1000 * 2^p), p = 52 - BinExp(n).
ReprDelta(n) ==
    LET r == ((n % MsPerSec) * Pow2Mod(52 - BinExp(n), MsPerSec)) % MsPerSec
    IN  IF r < 500 THEN 0 - r ELSE MsPerSec - r

\* The product (ts - int(ts)) * 1000 rounds to a double below k.
RoundsBelow(n) ==
    LET k == n % MsPerSec
        d == ReprDelta(n)
        ek == FloorLog2(k)
        q == ek - 1 - BinExp(n) - (IF Pow2(ek) = k THEN 1 ELSE 0)
    IN  /\ k > 0
        /\ d < 0
        /\ (q >= 0 => (0 - d) > Pow2(q))

\* int((ts - int(ts)) * 1000)
FracMillis(n) == IF RoundsBelow(n) THEN (n % MsPerSec) - 1 ELSE n % MsPerSec

\* The fields of f"{h:02d}:{m:02d}:{s:02d},{ms:03d}"
Fmt(n) ==
    LET sec == n \div MsPerSec
    IN  [h  |-> sec \div 3600,
         m  |-> (sec \div 60) % 60,
         s  |-> sec % 60,
         ms |-> FracMillis(n)]

\* Reading HH:MM:SS,mmm back as a number of milliseconds.
ParseTs(f) == ((f.h * 60 + f.m) * 60 + f.s) * MsPerSec + f.ms

\* --------------------------------------------- video_builder.py: _make_srt
\* One block: f"{i}\n{fmt(start)} --> {fmt(end)}\n{line}\n" with end = t + dur
\* (start and end are the loop's float values, startTs and endTs their
\* formatted timestamps).
\* The block with the clock not carried over from the previous entry
\* (faulty variant of SrtEntry).
SrtEntryNoClock(i, t, line, dur) ==
    [index |-> i, start |-> 0, end |-> dur,
     startTs |-> Fmt(0), endTs |-> Fmt(dur), text |-> line]

SrtEntry(i, t, line, dur) ==
    [index |-> i, start |-> t, end |-> t + dur,
     startTs |-> Fmt(t), endTs |-> Fmt(t + dur), text |-> line]

\* for i, (line, dur) in enumerate(segments, 1): ...; t = end
RECURSIVE SrtLoop(_, _, _)
SrtLoop(segs, i, t) ==
    IF segs = <<>> THEN <<>>
    ELSE <<SrtEntry(i, t, Head(segs)[1], Head(segs)[2])>>
         \o SrtLoop(Tail(segs), i + 1, t + Head(segs)[2])

MakeSrt(segs) == SrtLoop(segs, 1, 0)

\* ---------------------------------------------- tts_adapter.py: synth
\* _estimate_duration: max(0.8, words / wps).  The word count is an input,
\* so the estimate is any modelled duration of at least 0.8 s.
EstimateDurations == {d \in Durations : d >= MinEstimate}

\* Measured length of the wav file the silence fallback wrote for an
\* estimate of dur: int(dur * sr) samples, read back by AudioFileClip at the
\* reader's precision, so shorter or longer than dur.  (A file exactly as
\* long as the returned duration is what the real engine yields.)
FallbackWavDurs(dur) == {dur - Jitter, dur + Jitter}

\* The scene left at its natural length (faulty variant of ClipDuration).
ClipDurationUnclipped(natural, d) == natural

\* scene.duration is the wav's length; if scene.duration > d: set_duration(d)
ClipDuration(natural, d) == IF natural > d THEN d ELSE natural

\* ------------------------------------------------------------ responses
BadRequest == [status |-> 400, ok |-> FALSE, error |-> "Script cannot be empty."]
GenerationFailed == [status |-> 500, ok |-> FALSE, error |-> "Generation failed"]
Unhandled == [status |-> 500, ok |-> FALSE, error |-> "unhandled ValueError"]
Success == [status |-> 200, ok |-> TRUE, error |-> "none"]

\* ----------------------------------------------------------------- Init
Idle ==
    /\ target_seconds = 0
    /\ jobDir = FALSE
    /\ lines = <<>> /\ audio_files = <<>> /\ durations = <<>>
    /\ segments = <<>> /\ wavDur = <<>> /\ synthLog = <<>>
    /\ trimmed = FALSE
    /\ clips = <<>> /\ video = <<>> /\ srt = <<>> /\ audioMix = FALSE
    /\ response = NoResponse

Init ==
    /\ pc = "recv"
    /\ script \in Scripts
    /\ targetForm \in FormTargets
    /\ engine \in BOOLEAN
    /\ Idle
    /\ fmtIn = 0 /\ fmtOut = <<>>

\* -------------------------------------------------------------- actions
\* generate: int(...) of a malformed target_seconds raises before any check.
GenerateBadTarget ==
    /\ pc = "recv"
    /\ ~TargetParses(targetForm)
    /\ response' = Unhandled
    /\ pc' = "done"
    /\ UNCHANGED <<script, targetForm, engine, target_seconds, jobDir, buildVars, fmtVars>>

\* generate: if not script: return 400
GenerateEmpty ==
    /\ pc = "recv"
    /\ TargetParses(targetForm)
    /\ ScriptBlank(script)
    /\ target_seconds' = ParseTarget(targetForm)
    /\ response' = BadRequest
    /\ pc' = "done"
    /\ UNCHANGED <<script, targetForm, engine, jobDir, buildVars, fmtVars>>

\* generate up to the call of build_video_from_script, and the build up to
\* its synthesis loop.
GenerateStart ==
    /\ pc = "recv"
    /\ TargetParses(targetForm)
    /\ ~ScriptBlank(script)
    /\ target_seconds' = ParseTarget(targetForm)
    /\ jobDir' = TRUE
    /\ lines' = SplitLines(script)
    /\ IF SplitLines(script) = <<>>
       THEN /\ response' = GenerationFailed     \* raise ValueError, caught by generate
            /\ pc' = "done"
       ELSE /\ response' = response
            /\ pc' = "synth"
    /\ UNCHANGED <<script, targetForm, engine, audio_files, durations, segments,
                   wavDur, synthLog, trimmed, clips, video, srt, audioMix, fmtVars>>

\* One iteration of the synthesis loop: what it appends for a returned dur
\* and a wav file of measured length wav.
SynthReturns(dur, wav) ==
    LET idx == Len(durations) + 1
        line == lines[idx]
    IN  /\ synthLog' = Append(synthLog, [line |-> line, ok |-> TRUE, afterTrim |-> trimmed])
        /\ wavDur' = Append(wavDur, wav)
        /\ audio_files' = Append(audio_files, idx)
        /\ durations' = Append(durations, dur)
        /\ segments' = Append(segments, <<line, dur>>)
        /\ UNCHANGED <<pc, script, targetForm, engine, target_seconds, jobDir, lines,
                       trimmed, clips, video, srt, audioMix, response, fmtVars>>

InSynthLoop == pc = "synth" /\ Len(durations) < Len(lines)

\* synth with a real engine: the returned duration is the file's length.
SynthEngine ==
    /\ InSynthLoop
    /\ engine
    /\ \E dur \in Durations : SynthReturns(dur, dur)

\* synth with the silence fallback.
SynthFallback ==
    /\ InSynthLoop
    /\ ~engine
    /\ \E dur \in EstimateDurations : \E wav \in FallbackWavDurs(dur) : SynthReturns(dur, wav)

\* The exception of a failed synth call swallowed and the loop continued
\* with the estimate floor as duration (faulty variant of SynthFail).
SynthFailSwallowed ==
    /\ InSynthLoop
    /\ LET idx == Len(durations) + 1
       IN  /\ synthLog' = Append(synthLog, [line |-> lines[idx], ok |-> FALSE,
                                            afterTrim |-> trimmed])
           /\ wavDur' = Append(wavDur, MinEstimate)
           /\ audio_files' = Append(audio_files, idx)
           /\ durations' = Append(durations, MinEstimate)
           /\ segments' = Append(segments, <<lines[idx], MinEstimate>>)
    /\ UNCHANGED <<pc, script, targetForm, engine, target_seconds, jobDir, lines,
                   trimmed, clips, video, srt, audioMix, response, fmtVars>>

\* synth raises: the exception leaves build_video_from_script and generate
\* returns the failure.
SynthFail ==
    /\ InSynthLoop
    /\ synthLog' = Append(synthLog, [line |-> lines[Len(durations) + 1], ok |-> FALSE,
                                     afterTrim |-> trimmed])
    /\ response' = GenerationFailed
    /\ pc' = "done"
    /\ UNCHANGED <<script, targetForm, engine, target_seconds, jobDir, lines, audio_files,
                   durations, segments, wavDur, trimmed, clips, video, srt, audioMix, fmtVars>>

\* The trimming pass, entered before the synthesis loop is over (faulty variant of Trim).
TrimEarly ==
    /\ pc = "synth"
    /\ Len(durations) >= 1
    /\ LET n == Len(durations)
           plan == Schedule(Prefix(lines, n), audio_files, durations, target_seconds)
       IN  /\ lines' = plan.lines
           /\ audio_files' = plan.audio
           /\ durations' = plan.durs
    /\ trimmed' = TRUE
    /\ pc' = "render"
    /\ UNCHANGED <<script, targetForm, engine, target_seconds, jobDir, segments, wavDur,
                   synthLog, clips, video, srt, audioMix, response, fmtVars>>

\* total = sum(durations) and the trimming pass.
Trim ==
    /\ pc = "synth"
    /\ Len(durations) = Len(lines)
    /\ LET plan == Schedule(lines, audio_files, durations, target_seconds)
       IN  /\ lines' = plan.lines
           /\ audio_files' = plan.audio
           /\ durations' = plan.durs
    /\ trimmed' = TRUE
    /\ pc' = "render"
    /\ UNCHANGED <<script, targetForm, engine, target_seconds, jobDir, segments, wavDur,
                   synthLog, clips, video, srt, audioMix, response, fmtVars>>

\* One iteration of the scene loop.
MakeScene ==
    /\ pc = "render"
    /\ Len(clips) < Len(lines)
    /\ LET i == Len(clips) + 1
       IN  clips' = Append(clips, [text |-> lines[i], audio |-> audio_files[i],
                                   duration |-> ClipDuration(wavDur[audio_files[i]], durations[i])])
    /\ UNCHANGED <<pc, script, targetForm, engine, target_seconds, jobDir, lines, audio_files,
                   durations, segments, wavDur, synthLog, trimmed, video, srt, audioMix,
                   response, fmtVars>>

\* Rendering or encoding raises: generate returns the failure.
RenderFail ==
    /\ pc = "render"
    /\ response' = GenerationFailed
    /\ pc' = "done"
    /\ UNCHANGED <<script, targetForm, engine, target_seconds, jobDir, buildVars, fmtVars>>

\* concatenate_videoclips, write_videofile, the audio track (its failure is
\* swallowed), the subtitle file, and generate's success response.
WriteOutputs ==
    /\ pc = "render"
    /\ Len(clips) = Len(lines)
    /\ video' = <<[duration |-> SumSeq([i \in 1..Len(clips) |-> clips[i].duration]),
                   scenes |-> [i \in 1..Len(clips) |-> clips[i].text]]>>
    /\ audioMix' \in BOOLEAN
    /\ srt' = <<MakeSrt(segments)>>
    /\ response' = Success
    /\ pc' = "done"
    /\ UNCHANGED <<script, targetForm, engine, target_seconds, jobDir, lines, audio_files,
                   durations, segments, wavDur, synthLog, trimmed, clips, fmtVars>>

Next ==
    \/ GenerateBadTarget
    \/ GenerateEmpty
    \/ GenerateStart
    \/ SynthEngine
    \/ SynthFallback
    \/ SynthFail
    \/ Trim
    \/ MakeScene
    \/ RenderFail
    \/ WriteOutputs

Spec == Init /\ [][Next]_vars

\* ------------------------------------------------- fmt as a pure function
FmtInputs ==
    (0..MaxFmtMs)
    \cup {((hh * 60 + mm) * 60 + ss) * MsPerSec + ms :
            hh \in 0..MaxFmtHours, mm \in {0, 2, 59}, ss \in {0, 5, 59},
            ms \in {0, 1, 250, 300, 999}}

InitFmt ==
    /\ pc = "fmt"
    /\ script = <<>>
    /\ targetForm = [kind |-> "absent", val |-> 0]
    /\ engine = FALSE
    /\ Idle
    /\ fmtIn \in FmtInputs
    /\ fmtOut = <<>>

FmtCall ==
    /\ pc = "fmt"
    /\ fmtOut = <<>>
    /\ fmtOut' = <<Fmt(fmtIn)>>
    /\ UNCHANGED <<pc, script, targetForm, engine, target_seconds, jobDir, buildVars,
                   response, fmtIn>>

NextFmt == FmtCall

SpecFmt == InitFmt /\ [][NextFmt]_vars

\* =============================================================== claims
\* The input of the trimming pass: the script's lines and the durations the
\* synthesis loop collected (segments is never reassigned by the build).
origLines == SplitLines(script)
origDurs == [i \in 1..Len(segments) |-> segments[i][2]]
origTotal == SumSeq(origDurs)
budget == target_seconds * MsPerSec
Succeeded == pc = "done" /\ response = Success

\* C1: the written subtitles have exactly one entry per rendered scene, each
\* with that scene's scheduled text (marker included) and scheduled
\* duration, so the last subtitle ends at the sum of the scheduled durations
\* (stated here for positive target_seconds, the scheduler's contract).
C1_SubtitlesFollowScenePlan ==
    (srt # <<>> /\ target_seconds >= 1) =>
        LET e == srt[1]
        IN  /\ Len(e) = Len(clips)
            /\ \A i \in 1..Len(e) :
                  /\ i <= Len(lines)
                  /\ e[i].text = lines[i]
                  /\ ParseTs(e[i].endTs) - ParseTs(e[i].startTs) = durations[i]
            /\ (Len(e) > 0 => ParseTs(e[Len(e)].endTs) = SumSeq(durations))

\* C2 as stated: when the total exceeds target_seconds, the trimmed sequence
\* is a strict prefix of the input followed by exactly one entry, the next
\* input segment with text + marker and duration 0.3 <= d <= target_seconds
\* (stated here for non-negative target_seconds).
C2_TruncatedWithinTarget ==
    (trimmed /\ origTotal > budget /\ target_seconds >= 0) =>
        LET n == Len(lines)
        IN  /\ n >= 1 /\ n <= Len(origLines)
            /\ Len(durations) = n /\ Len(audio_files) = n
            /\ \A i \in 1..(n - 1) :
                  lines[i] = origLines[i] /\ durations[i] = origDurs[i] /\ audio_files[i] = i
            /\ lines[n] = origLines[n] \o Marker
            /\ audio_files[n] = n
            /\ MinRemaining <= durations[n]
            /\ durations[n] <= budget

\* C2 amended: as C2, but the last duration is max(0.3, target_seconds -
\* running) for the running total of the kept prefix, so it satisfies
\* 0.3 <= d <= max(0.3, target_seconds), and d <= target_seconds whenever
\* target_seconds >= 1.
C2_TruncatedWithinFlooredTarget ==
    (trimmed /\ origTotal > budget) =>
        LET n == Len(lines)
        IN  /\ n >= 1 /\ n <= Len(origLines)
            /\ Len(durations) = n /\ Len(audio_files) = n
            /\ \A i \in 1..(n - 1) :
                  lines[i] = origLines[i] /\ durations[i] = origDurs[i] /\ audio_files[i] = i
            /\ lines[n] = origLines[n] \o Marker
            /\ audio_files[n] = n
            /\ durations[n] = Max(MinRemaining, budget - SumSeq(Prefix(origDurs, n - 1)))
            /\ MinRemaining <= durations[n]
            /\ durations[n] <= Max(MinRemaining, budget)
            /\ (target_seconds >= 1 => durations[n] <= budget)

\* A truncation that keeps a non-empty prefix and drops at least one segment.
C2_Witness ==
    /\ Succeeded /\ origTotal > budget
    /\ Len(lines) = 2 /\ Len(origLines) = 3
    /\ durations[2] > MinRemaining

\* C3 as stated: the durations kept by the trimming pass sum to at most
\* target_seconds (stated here for positive target_seconds, the scheduler's
\* contract).
C3_SumWithinTarget == (trimmed /\ target_seconds >= 1) => SumSeq(durations) <= budget

\* C3 amended: the kept durations sum to at most target_seconds unless the
\* truncated scene had less than 0.3 s of budget left and was floored to
\* 0.3 s: the sum is max(target_seconds, running + 0.3) when a scene is
\* truncated (running being the total of the untruncated prefix, itself at
\* most target_seconds when that prefix is not empty), and the input total
\* otherwise.
C3_SumWithinFlooredTarget ==
    trimmed =>
        LET n == Len(lines)
            running == SumSeq(Prefix(origDurs, n - 1))
        IN  /\ origTotal <= budget => SumSeq(durations) = origTotal
            /\ origTotal > budget =>
                  /\ SumSeq(durations) = Max(budget, running + MinRemaining)
                  /\ (n > 1 => running <= budget)
                  /\ SumSeq(durations) <= Max(budget, 0) + MinRemaining
            /\ (origTotal <= budget \/ budget - running >= MinRemaining)
                  => SumSeq(durations) <= budget

\* A truncation floored to 0.3 s after a non-empty prefix used the budget up.
C3_Witness ==
    /\ Succeeded /\ origTotal > budget
    /\ Len(lines) >= 2
    /\ durations[Len(lines)] = MinRemaining
    /\ SumSeq(durations) > budget

\* C4: when the total is at most target_seconds (equality included) the
\* trimming pass leaves texts, durations and order unchanged.
C4_UnchangedWithinBudget ==
    (trimmed /\ origTotal <= budget) =>
        /\ lines = origLines
        /\ durations = origDurs
        /\ audio_files = [i \in 1..Len(origLines) |-> i]

\* Several scenes whose total equals the target exactly.
C4_Witness ==
    /\ Succeeded /\ origTotal = budget /\ Len(lines) >= 2

\* C5: the entries _make_srt emits are numbered 1..n in input order, the
\* first starts at 0, each ends at its start plus its segment's duration,
\* and each starts where the previous one ended.
C5_ContiguousEntries ==
    srt # <<>> =>
        LET e == srt[1]
        IN  /\ Len(e) = Len(segments)
            /\ \A i \in 1..Len(e) :
                  /\ e[i].index = i
                  /\ e[i].text = segments[i][1]
                  /\ e[i].end = e[i].start + segments[i][2]
                  /\ ParseTs(e[i].endTs) = ParseTs(e[i].startTs) + segments[i][2]
            /\ (Len(e) > 0 => e[1].start = 0 /\ ParseTs(e[1].startTs) = 0)
            /\ \A i \in 1..(Len(e) - 1) :
                  e[i].end = e[i + 1].start /\ e[i].endTs = e[i + 1].startTs

\* A subtitle file of three entries with different durations.
C5_Witness ==
    /\ srt # <<>>
    /\ Len(srt[1]) = 3
    /\ segments[1][2] # segments[2][2]

\* C6: for every non-negative whole number of milliseconds fmt yields
\* hours = total seconds div 3600, minutes and seconds in 0..59,
\* milliseconds in 0..999, and parsing the timestamp back gives the
\* original number of milliseconds.
C6_FmtRoundTrips ==
    fmtOut # <<>> =>
        LET f == fmtOut[1]
        IN  /\ f.h = (fmtIn \div MsPerSec) \div 3600
            /\ f.m \in 0..59
            /\ f.s \in 0..59
            /\ f.ms \in 0..999
            /\ ParseTs(f) = fmtIn

\* C7: a request whose script has no non-empty line ends in the validation
\* failure, whatever its other fields, with no synthesis call, no job
\* directory, no scheduling and no output file.
C7_EmptyScriptRejectedFirst ==
    (pc = "done" /\ ScriptBlank(script)) =>
        /\ response = BadRequest
        /\ synthLog = <<>>
        /\ ~jobDir
        /\ ~trimmed
        /\ clips = <<>> /\ video = <<>> /\ srt = <<>> /\ ~audioMix

\* C8: once a synthesis call has failed, the request has ended with the
\* "Generation failed" result, no video and no subtitle file is written,
\* the failed call is the last synthesis call, and every call before it
\* was for a different line, in script order (no retry).
C8_SynthFailureSurfaces ==
    (\E i \in 1..Len(synthLog) : ~synthLog[i].ok) =>
        /\ pc = "done"
        /\ response = GenerationFailed
        /\ video = <<>> /\ srt = <<>> /\ ~audioMix
        /\ ~synthLog[Len(synthLog)].ok
        /\ \A i \in 1..(Len(synthLog) - 1) : synthLog[i].ok
        /\ Len(synthLog) <= Len(origLines)
        /\ \A i \in 1..Len(synthLog) : synthLog[i].line = origLines[i]

\* Synthesis failed on a middle line of a three-line script.
C8_Witness ==
    /\ Len(origLines) = 3
    /\ Len(synthLog) = 2
    /\ ~synthLog[2].ok

\* C9 as stated: every rendered scene has exactly its scheduled duration,
\* and the video lasts the sum of the scheduled durations.
C9_ClipsHaveScheduledDuration ==
    /\ \A i \in 1..Len(clips) : clips[i].duration = durations[i]
    /\ video # <<>> => video[1].duration = SumSeq(durations)

\* C9 amended: every rendered scene lasts min(natural, d): never more than
\* its scheduled duration d, exactly d when its audio is at least d long,
\* and its audio's length when that is shorter; the video lasts at most the
\* sum of the scheduled durations.
C9_ClipsCappedAtScheduledDuration ==
    /\ \A i \in 1..Len(clips) :
          LET natural == wavDur[clips[i].audio]
          IN  /\ clips[i].audio = audio_files[i]
              /\ clips[i].duration <= durations[i]
              /\ natural >= durations[i] => clips[i].duration = durations[i]
              /\ natural < durations[i] => clips[i].duration = natural
    /\ video # <<>> =>
          /\ video[1].duration <= SumSeq(durations)
          /\ video[1].duration = SumSeq([i \in 1..Len(clips) |-> clips[i].duration])

\* A video whose last scene was cut down from a longer audio file.
C9_Witness ==
    /\ video # <<>>
    /\ Len(clips) >= 2
    /\ wavDur[clips[Len(clips)].audio] > durations[Len(clips)]
    /\ clips[Len(clips)].duration = durations[Len(clips)]

\* C10: synthesis is called once per non-empty line, in script order, and
\* only before the trimming pass; when the pass starts every line has been
\* synthesized (dropped lines included); scenes are rendered only for kept
\* lines, never more than there were synthesis calls, and a written video
\* has at least one scene.
C10_SynthesisPrecedesTrimming ==
    /\ Len(synthLog) <= Len(origLines)
    /\ \A i \in 1..Len(synthLog) : synthLog[i].line = origLines[i] /\ ~synthLog[i].afterTrim
    /\ trimmed =>
          /\ Len(synthLog) = Len(origLines)
          /\ \A i \in 1..Len(synthLog) : synthLog[i].ok
          /\ Len(wavDur) = Len(origLines)
          /\ Len(lines) <= Len(origLines)
    /\ Len(clips) <= Len(synthLog)
    /\ clips # <<>> => trimmed /\ Len(clips) <= Len(lines)
    /\ \A i \in 1..Len(clips) : clips[i].audio = i /\ clips[i].text = lines[i]
    /\ video # <<>> => Len(clips) >= 1 /\ Len(clips) = Len(lines)

\* A video of one scene made from a script of three synthesized lines.
C10_Witness ==
    /\ video # <<>>
    /\ Len(clips) = 1
    /\ Len(synthLog) = 3
    /\ Len(wavDur) = 3

====
